---- MODULE Spec2Model ----
(***************************************************************************)
(* Model of src/Taller_NNA/data_NNA.py: a single-threaded EDA pipeline     *)
(* (loader, profiler, quality flagger, chart renderer, orchestration).     *)
(*                                                                         *)
(* Text (a line of a file, a column label) is a sequence of one-character  *)
(* strings, so that counting, prefix matching, stripping and replacing are *)
(* computed character by character.  A DataFrame is a record               *)
(*   [n |-> row count, columns |-> sequence of columns]                    *)
(* and a column (a Series with its label) is a record                      *)
(*   [column |-> label, dtype |-> "number" | "object", cells |-> runs]     *)
(* whose cells are run-length encoded: a sequence of [v |-> value,         *)
(* k |-> number of consecutive rows holding it], the lengths adding up to  *)
(* n.  The missing marker (NaN/None) is the value NA.                      *)
(***************************************************************************)
EXTENDS Integers, Sequences, FiniteSets, TLC

VARIABLES pc,            \* position of the run
          ext,           \* read_any: lower-cased extension of path
          head,          \* _detect_sep: first line of the file
          sep,           \* read_any: the sep argument
          used_sep,      \* read_any: the sep handed to pd.read_csv
          sheet,         \* read_any: the sheet argument
          book,          \* the workbook: columns each header choice parses to
          attempts,      \* read_any: the header arguments of the read_excel calls made
          ret,           \* read_any: the value returned
          loaded,        \* main: df as read_any returned it
          df,            \* main: df
          df_cols_norm,  \* main: df_cols_norm
          ov,            \* main: ov
          dd,            \* main: dd
          flags,         \* main: flags
          max_hist,      \* main: args.max_hist
          max_box,       \* main: args.max_box
          figs,          \* what plot_histograms / plot_boxplots drew
          log,           \* levels of the messages main logged that matter here
          files          \* files written so far

vars == <<pc, ext, head, sep, used_sep, sheet, book, attempts, ret, loaded, df,
          df_cols_norm, ov, dd, flags, max_hist, max_box, figs, log, files>>

\* ------------------------------------------------------------------ bounds
MaxLine == 4          \* longest first line enumerated for _detect_sep
MaxSheetCols == 1     \* most columns a read_excel parse yields
MaxRows == 3          \* most rows of a profiled table
MaxCols == 2          \* most columns of a profiled table
MaxMainRows == 1      \* most rows of a table run through main
MaxMainCols == 2      \* most columns of a table run through main
MaxGridCols == 7      \* most columns of a plotted table
MaxCap == 2           \* largest non-default --max-hist / --max-box enumerated

\* ------------------------------------------------------------------ basics
None == "None"
NA == 0                \* the missing marker (NaN); cell values proper are 1, 2, ...
Nothing == <<>>       \* value of a variable a specification does not use

Max(a, b) == IF a >= b THEN a ELSE b
Min(a, b) == IF a <= b THEN a ELSE b

SeqsUpTo(S, m) == UNION { [1..k -> S] : k \in 0..m }

Range(s) == { s[i] : i \in 1..Len(s) }

IsInjective(s) == \A i, j \in 1..Len(s) : s[i] = s[j] => i = j

\* ------------------------------------------------------------------ loader
ExcelExts == { ".xlsx", ".xls" }
TextExts == { ".csv", ".txt" }

\* str.count of a one-character needle
RECURSIVE Count(_, _)
Count(s, ch) ==
    IF s = <<>> THEN 0
    ELSE (IF Head(s) = ch THEN 1 ELSE 0) + Count(Tail(s), ch)

candidates == << ",", ";", "\t", "|" >>

BetterLast(cnt, best_count) == cnt >= best_count

Better(cnt, best_count) == cnt > best_count

\* the for loop of _detect_sep from candidate i on
RECURSIVE DetectLoop(_, _, _, _)
DetectLoop(line, i, best_sep, best_count) ==
    IF i > Len(candidates) THEN best_sep
    ELSE LET s == candidates[i]
             cnt == Count(line, s)
         IN  IF Better(cnt, best_count)
             THEN DetectLoop(line, i + 1, s, cnt)
             ELSE DetectLoop(line, i + 1, best_sep, best_count)

_detect_sep(line) == DetectLoop(line, 1, ",", -1)

\* pd.read_excel(path, sheet_name, header): sheet_name=None asks pandas for every
\* sheet and yields a dict of DataFrames, any other selector one DataFrame
read_excel(bk, sheet_name, header) ==
    IF sheet_name = None
    THEN [type |-> "dict"]
    ELSE [type |-> "DataFrame", ncols |-> bk[header], header |-> header]

Headers == << "0", "1", "2" >>
HeaderArgs == Range(Headers) \cup { None }

\* main, lines 256-261: --sheet is absent (None), an integer or a name
SheetArgs == { None, "0", "Datos" }

LineChars == { ",", ";", "\t", "|", "a" }
ExampleLine == << "a", ",", "b", ";", "c", ",", "d", ",", "e" >>
Lines == SeqsUpTo(LineChars, MaxLine) \cup { ExampleLine }
SepArgs == { "auto", ",", ";", " " }

IdleLoader ==
    /\ ext = Nothing /\ head = Nothing /\ sep = Nothing /\ used_sep = Nothing
    /\ sheet = Nothing /\ book = Nothing /\ attempts = Nothing /\ ret = Nothing

IdleMain ==
    /\ loaded = Nothing /\ df = Nothing /\ df_cols_norm = Nothing /\ ov = Nothing
    /\ dd = Nothing /\ flags = Nothing /\ max_hist = Nothing /\ max_box = Nothing
    /\ figs = Nothing /\ log = {} /\ files = {}

mainVars == <<loaded, df, df_cols_norm, ov, dd, flags, max_hist, max_box, figs,
              log, files>>

\* ---- read_any on delimited text
InitSep ==
    /\ pc = "read_any"
    /\ ext \in TextExts
    /\ head \in Lines
    /\ sep \in SepArgs
    /\ used_sep = None
    /\ sheet = None /\ book = Nothing /\ attempts = <<>> /\ ret = None
    /\ IdleMain

\* read_any, lines 71-74, sep == "auto"
ReadCsvAuto ==
    /\ pc = "read_any"
    /\ ext \notin ExcelExts
    /\ sep = "auto"
    /\ used_sep' = _detect_sep(head)
    /\ pc' = "returned"
    /\ UNCHANGED <<ext, head, sep, sheet, book, attempts, ret>>
    /\ UNCHANGED mainVars

\* read_any, lines 71-74, sep given by the caller
ReadCsvGiven ==
    /\ pc = "read_any"
    /\ ext \notin ExcelExts
    /\ sep # "auto"
    /\ used_sep' = sep
    /\ pc' = "returned"
    /\ UNCHANGED <<ext, head, sep, sheet, book, attempts, ret>>
    /\ UNCHANGED mainVars

NextSep == ReadCsvAuto \/ ReadCsvGiven

SpecSep == InitSep /\ [][NextSep]_vars

\* ---- read_any on a spreadsheet
InitExcel ==
    /\ pc = "read_any"
    /\ ext \in ExcelExts
    /\ sheet \in SheetArgs
    /\ book \in [HeaderArgs -> 0..MaxSheetCols]
    /\ attempts = <<>>
    /\ ret = None
    /\ head = Nothing /\ sep = "auto" /\ used_sep = None
    /\ IdleMain

\* read_any, lines 64-67: one iteration of the for loop
TryHeader ==
    /\ pc = "read_any"
    /\ ext \in ExcelExts
    /\ Len(attempts) < Len(Headers)
    /\ LET h == Headers[Len(attempts) + 1]
           d == read_excel(book, sheet, h)
       IN  /\ attempts' = Append(attempts, h)
           /\ IF d.type # "DataFrame"
              THEN \* df.shape on a dict raises AttributeError
                   /\ pc' = "raised"
                   /\ ret' = ret
              ELSE IF d.ncols > 0
                   THEN /\ pc' = "returned"
                        /\ ret' = d
                   ELSE /\ pc' = "read_any"
                        /\ ret' = ret
    /\ UNCHANGED <<ext, head, sep, used_sep, sheet, book>>
    /\ UNCHANGED mainVars

\* read_any, line 69: the fallback after the loop
Fallback ==
    /\ pc = "read_any"
    /\ ext \in ExcelExts
    /\ Len(attempts) = Len(Headers)
    /\ attempts' = Append(attempts, None)
    /\ ret' = read_excel(book, sheet, None)
    /\ pc' = "returned"
    /\ UNCHANGED <<ext, head, sep, used_sep, sheet, book>>
    /\ UNCHANGED mainVars

NextExcel == TryHeader \/ Fallback

SpecExcel == InitExcel /\ [][NextExcel]_vars

\* ------------------------------------------------------------------ tables
Number == "number"
Object == "object"

\* non-increasing sequences of at most u positive integers <= mx adding up to n
RECURSIVE Parts(_, _, _)
Parts(n, mx, u) ==
    IF n = 0 THEN { <<>> }
    ELSE IF u = 0 THEN {}
    ELSE UNION { { <<k>> \o p : p \in Parts(n - k, k, u - 1) } : k \in 1..Min(n, mx) }

\* the cells of a column of n rows holding at most maxu distinct values: the
\* missing rows first, then a run of each value
Cells(n, maxu) ==
    UNION { { (IF m > 0 THEN << [v |-> NA, k |-> m] >> ELSE <<>>)
              \o [i \in 1..Len(p) |-> [v |-> i, k |-> p[i]]]
              : p \in Parts(n - m, n - m, maxu) }
            : m \in 0..n }

RECURSIVE SumRuns(_)
SumRuns(runs) == IF runs = <<>> THEN 0 ELSE Head(runs).k + SumRuns(Tail(runs))

\* the value of row i (1-based) of a column
RECURSIVE ValueAt(_, _)
ValueAt(runs, i) ==
    IF i <= Head(runs).k THEN Head(runs).v ELSE ValueAt(Tail(runs), i - Head(runs).k)

Labels(d) == [i \in 1..Len(d.columns) |-> d.columns[i].column]

\* Series.isna().sum(), Series.notna().sum(), Series.nunique(dropna=True)
isna_sum(s) == SumRuns(SelectSeq(s.cells, LAMBDA r : r.v = NA))
notna_sum(s) == SumRuns(SelectSeq(s.cells, LAMBDA r : r.v # NA))
nunique(s) == Cardinality({ s.cells[i].v : i \in { j \in 1..Len(s.cells) : s.cells[j].v # NA } })

\* round(x, 2) of x = num / den >= 0, as a count of hundredths: the nearest
\* hundredth, an exact tie going to the even one.  (Python rounds the float
\* nearest to x; the two differ only on a tie, which needs a row count that
\* is a multiple of 32 and so none of the row counts drawn below.)
Round2(num, den) ==
    LET q == (num * 100) \div den
        r == (num * 100) % den
    IN  IF 2 * r > den \/ (2 * r = den /\ q % 2 = 1) THEN q + 1 ELSE q

missing_pct_else100(missing, n) == IF n > 0 THEN Round2(missing * 100, n) ELSE 10000

\* data_dictionary, lines 103 and 111: round((missing / n) * 100 if n > 0 else 0.0, 2),
\* in hundredths of a percent
missing_pct_of(missing, n) == IF n > 0 THEN Round2(missing * 100, n) ELSE 0

\* data_dictionary, lines 98-99: with a repeated label df[c] is a DataFrame and
\* s.dtype raises AttributeError
DictRaises(d) == ~IsInjective(Labels(d))

\* data_dictionary, the rows of the returned frame (the fields sample, min, max
\* and mean, which nothing downstream reads, are left out)
data_dictionary(d) ==
    [i \in 1..Len(d.columns) |->
        LET s == d.columns[i]
        IN  [column |-> s.column,
             dtype |-> s.dtype,
             non_null |-> notna_sum(s),
             nunique |-> nunique(s),
             missing |-> isna_sum(s),
             missing_pct |-> missing_pct_of(isna_sum(s), d.n)]]

\* DataFrame.duplicated().sum(): rows equal to an earlier row (NaN equal to NaN)
duplicated_sum(d) ==
    IF d.n = 0 THEN 0
    ELSE d.n - Cardinality({ [c \in 1..Len(d.columns) |-> ValueAt(d.columns[c].cells, i)]
                             : i \in 1..d.n })

is_high_missing_ge(row) == row.missing_pct >= 30 * 100

\* quality_flags, line 130: dd["missing_pct"] > 30
is_high_missing(row) == row.missing_pct > 30 * 100

id_threshold_nomax(n) == (n * 9) \div 10

\* quality_flags, line 132: max(2, int(n * 0.9))
id_threshold(n) == Max(2, (n * 9) \div 10)

ColumnsOf(rows) == [i \in 1..Len(rows) |-> rows[i].column]

\* quality_flags; an empty dd has no "missing_pct" / "nunique" column
quality_flags(d, rows) ==
    LET n == d.n
    IN  [rows |-> n,
         high_missing_cols |->
            IF Len(rows) > 0 THEN ColumnsOf(SelectSeq(rows, is_high_missing)) ELSE <<>>,
         constant_cols |->
            IF Len(rows) > 0
            THEN ColumnsOf(SelectSeq(rows, LAMBDA r : r.nunique <= 1)) ELSE <<>>,
         suspected_id_like |->
            IF n > 0 /\ Len(rows) > 0
            THEN ColumnsOf(SelectSeq(rows, LAMBDA r : r.nunique >= id_threshold(n)))
            ELSE <<>>,
         duplicate_rows |-> duplicated_sum(d)]

\* data_overview (memory_bytes left out)
data_overview(d) ==
    [rows |-> d.n,
     cols |-> Len(d.columns),
     columns |-> Labels(d),
     dtypes_count |-> [t \in { d.columns[i].dtype : i \in 1..Len(d.columns) } |->
                        Cardinality({ i \in 1..Len(d.columns) : d.columns[i].dtype = t })],
     missing_cells |-> SumRuns([i \in 1..Len(d.columns) |->
                                 [v |-> NA, k |-> isna_sum(d.columns[i])]])]

\* ------------------------------------------------------------------ charts
DefaultMaxHist == 12
DefaultMaxBox == 8

\* seq[:m] of Python
SliceTo(s, m) ==
    IF m >= 0 THEN SubSeq(s, 1, Min(m, Len(s))) ELSE SubSeq(s, 1, Max(Len(s) + m, 0))

\* int(np.ceil(np.sqrt(k))) for k >= 1
CeilSqrt(k) == CHOOSE c \in 1..k : c * c >= k /\ (c - 1) * (c - 1) < k

\* int(np.ceil(a / b)) for a >= 0, b >= 1
CeilDiv(a, b) == (a + b - 1) \div b

_grid_size_floor(k) ==
    IF k <= 0 THEN <<1, 1>> ELSE <<k \div CeilSqrt(k), CeilSqrt(k)>>

\* _grid_size: (rows, cols)
_grid_size(k) ==
    IF k <= 0 THEN <<1, 1>> ELSE <<CeilDiv(k, CeilSqrt(k)), CeilSqrt(k)>>

\* df.select_dtypes(include=[np.number]) / (exclude=[np.number]): the labels kept
select_number(d) == Labels([d EXCEPT !.columns = SelectSeq(d.columns, LAMBDA s : s.dtype = Number)])
select_other(d) == Labels([d EXCEPT !.columns = SelectSeq(d.columns, LAMBDA s : s.dtype # Number)])

NoFigure == [saved |-> FALSE, r |-> 0, c |-> 0, drawn |-> <<>>, hidden |-> 0]

\* the grid both plot functions lay out: zip(axes, cols) draws, axes[len(cols):] are
\* switched off
PlotGrid(d, max_cols) ==
    LET num == select_number(d)
    IN  IF Len(num) = 0 THEN NoFigure
        ELSE LET cols == SliceTo(num, max_cols)
                 rc == _grid_size(Len(cols))
                 axes == rc[1] * rc[2]
             IN  [saved |-> TRUE, r |-> rc[1], c |-> rc[2],
                  drawn |-> SubSeq(cols, 1, Min(axes, Len(cols))),
                  hidden |-> Max(axes - Len(cols), 0)]

plot_histograms(d, max_cols) == PlotGrid(d, max_cols)
plot_boxplots(d, max_cols) == PlotGrid(d, max_cols)

\* ------------------------------------------------------------------ main
\* a file written: its path and, for the per-column value counts, the column
File(path) == <<path, <<>>>>
ValueCounts(c) == <<"reports/{c}_top20_value_counts.csv", c>>

SampleHead == File("data/interim/sample_head.csv")
DictionaryFiles == { File("reports/data_dictionary.csv"),
                     File("data/interim/_data_dictionary_debug.csv") }
FlagsFile == File("reports/quality_flags.json")
MissingBar == File("reports/figures/missing_bar.png")
HistogramsPng == File("reports/figures/histograms.png")
BoxplotsPng == File("reports/figures/boxplots.png")
CorrMatrix == File("reports/figures/corr_matrix.png")
NumericSummary == File("reports/numeric_summary.csv")

UnnamedPat == << "U", "n", "n", "a", "m", "e", "d" >>

\* Index.str.contains("^Unnamed") on one label
contains_Unnamed(label) ==
    Len(label) >= Len(UnnamedPat) /\ SubSeq(label, 1, Len(UnnamedPat)) = UnnamedPat

any_Unnamed(d) == \E i \in 1..Len(d.columns) : contains_Unnamed(d.columns[i].column)

\* main, line 267: all(df.columns.str.contains("^Unnamed"))
all_Unnamed(d) == \A i \in 1..Len(d.columns) : contains_Unnamed(d.columns[i].column)

Whitespace == { " ", "\t", "\n" }

\* str.strip()
RECURSIVE lstrip(_)
lstrip(s) == IF s # <<>> /\ Head(s) \in Whitespace THEN lstrip(Tail(s)) ELSE s
RECURSIVE rstrip(_)
rstrip(s) ==
    IF s # <<>> /\ s[Len(s)] \in Whitespace THEN rstrip(SubSeq(s, 1, Len(s) - 1)) ELSE s
strip(s) == rstrip(lstrip(s))

\* str.replace(" ", "_")
replace_spaces(s) == [i \in 1..Len(s) |-> IF s[i] = " " THEN "_" ELSE s[i]]

\* main, line 274: str(c).strip().replace(" ", "_")
normalize_label(c) == replace_spaces(strip(c))

has_columns_ge(o) == o.cols >= 0

\* main, line 283: ov["cols"] > 0
has_columns(o) == o.cols > 0

\* main, lines 267-270
CleanUnnamed ==
    /\ pc = "clean"
    /\ IF all_Unnamed(df)
       THEN /\ log' = log \cup { "WARNING" }
            /\ df' = df
       ELSE /\ log' = log
            /\ df' = [df EXCEPT !.columns =
                        SelectSeq(df.columns, LAMBDA s : ~contains_Unnamed(s.column))]
    /\ pc' = "normalize"
    /\ UNCHANGED <<ext, head, sep, used_sep, sheet, book, attempts, ret>>
    /\ UNCHANGED <<loaded, df_cols_norm, ov, dd, flags, max_hist, max_box, figs, files>>

\* main, line 267, on a frame without columns: pandas builds such a frame with a
\* RangeIndex for its columns (2.0 on) or an empty object Index (before); the .str
\* accessor raises AttributeError on the former and works on the latter
CleanUnnamedRaises ==
    /\ pc = "clean"
    /\ Len(df.columns) = 0
    /\ pc' = "raised"
    /\ UNCHANGED <<ext, head, sep, used_sep, sheet, book, attempts, ret>>
    /\ UNCHANGED mainVars

\* main, lines 273-275
Normalize ==
    /\ pc = "normalize"
    /\ df_cols_norm' = [df EXCEPT !.columns =
            [i \in 1..Len(df.columns) |->
                [df.columns[i] EXCEPT !.column = normalize_label(df.columns[i].column)]]]
    /\ files' = files \cup { SampleHead }
    /\ pc' = "overview"
    /\ UNCHANGED <<ext, head, sep, used_sep, sheet, book, attempts, ret>>
    /\ UNCHANGED <<loaded, df, ov, dd, flags, max_hist, max_box, figs, log>>

\* main, lines 278-283
Overview ==
    /\ pc = "overview"
    /\ ov' = data_overview(df_cols_norm)
    /\ pc' = IF has_columns(data_overview(df_cols_norm)) THEN "data_dictionary" ELSE "no_columns"
    /\ UNCHANGED <<ext, head, sep, used_sep, sheet, book, attempts, ret>>
    /\ UNCHANGED <<loaded, df, df_cols_norm, dd, flags, max_hist, max_box, figs, log, files>>

\* main, lines 284-286
Dictionary ==
    /\ pc = "data_dictionary"
    /\ IF DictRaises(df_cols_norm)
       THEN /\ pc' = "raised"
            /\ UNCHANGED <<dd, files>>
       ELSE /\ dd' = data_dictionary(df_cols_norm)
            /\ files' = files \cup DictionaryFiles
            /\ pc' = "quality_flags"
    /\ UNCHANGED <<ext, head, sep, used_sep, sheet, book, attempts, ret>>
    /\ UNCHANGED <<loaded, df, df_cols_norm, ov, flags, max_hist, max_box, figs, log>>

\* main, lines 289-292
Flags ==
    /\ pc = "quality_flags"
    /\ flags' = quality_flags(df_cols_norm, dd)
    /\ files' = files \cup { FlagsFile }
    /\ pc' = "charts"
    /\ UNCHANGED <<ext, head, sep, used_sep, sheet, book, attempts, ret>>
    /\ UNCHANGED <<loaded, df, df_cols_norm, ov, dd, max_hist, max_box, figs, log>>

\* main, lines 295-299 (plot_missing_bar writes when there is a column,
\* plot_correlation when there are two numeric ones)
Charts ==
    /\ pc = "charts"
    /\ LET h == plot_histograms(df_cols_norm, max_hist)
           b == plot_boxplots(df_cols_norm, max_box)
       IN  /\ figs' = [histograms |-> h, boxplots |-> b]
           /\ files' = files
                \cup (IF Len(df_cols_norm.columns) > 0 THEN { MissingBar } ELSE {})
                \cup (IF h.saved THEN { HistogramsPng } ELSE {})
                \cup (IF b.saved THEN { BoxplotsPng } ELSE {})
                \cup (IF Len(select_number(df_cols_norm)) >= 2 THEN { CorrMatrix } ELSE {})
    /\ pc' = "tables"
    /\ UNCHANGED <<ext, head, sep, used_sep, sheet, book, attempts, ret>>
    /\ UNCHANGED <<loaded, df, df_cols_norm, ov, dd, flags, max_hist, max_box, log>>

\* main, lines 302-309
Tables ==
    /\ pc = "tables"
    /\ files' = files
        \cup (IF Len(select_number(df_cols_norm)) > 0 THEN { NumericSummary } ELSE {})
        \cup { ValueCounts(c) : c \in Range(select_other(df_cols_norm)) }
    /\ pc' = "finish"
    /\ UNCHANGED <<ext, head, sep, used_sep, sheet, book, attempts, ret>>
    /\ UNCHANGED <<loaded, df, df_cols_norm, ov, dd, flags, max_hist, max_box, figs, log>>

\* main, lines 311-312
LogError ==
    /\ pc = "no_columns"
    /\ log' = log \cup { "ERROR" }
    /\ pc' = "finish"
    /\ UNCHANGED <<ext, head, sep, used_sep, sheet, book, attempts, ret>>
    /\ UNCHANGED <<loaded, df, df_cols_norm, ov, dd, flags, max_hist, max_box, figs, files>>

\* main, line 314
Finish ==
    /\ pc = "finish"
    /\ log' = log \cup { "INFO Listo" }
    /\ pc' = "done"
    /\ UNCHANGED <<ext, head, sep, used_sep, sheet, book, attempts, ret>>
    /\ UNCHANGED <<loaded, df, df_cols_norm, ov, dd, flags, max_hist, max_box, figs, files>>

\* ------------------------------------------------------------------ inputs
\* the frames of n rows whose columns take their labels from names (a sequence
\* of labels), any dtype in dtypes, and cells of at most maxu distinct values
Frames(n, names, dtypes, maxu) ==
    { [n |-> n,
       columns |-> [i \in 1..Len(names) |->
                      [column |-> names[i], dtype |-> f[i].dtype, cells |-> f[i].cells]]] :
        f \in [1..Len(names) -> [dtype : dtypes, cells : Cells(n, maxu)]] }

EmptyFrame == [n |-> 0, columns |-> <<>>]

\* ---- the whole of main after read_any, on small frames
LabelPool == { << "U", "n", "n", "a", "m", "e", "d", ":", " ", "0" >>,
               << "U", "n", "n", "a", "m", "e", "d", ":", " ", "1" >>,
               << "a", " ", "b" >>,
               << "a", "_", "b" >>,
               << "b", " " >> }

\* what a reader returns: no label twice (pandas renames a repeated header)
MainFrames ==
    { EmptyFrame } \cup
    UNION { Frames(n, names, { Number, Object }, n) :
            n \in 0..MaxMainRows,
            names \in { s \in SeqsUpTo(LabelPool, MaxMainCols) : s # <<>> /\ IsInjective(s) } }

InitMain ==
    /\ pc = "clean"
    /\ loaded \in MainFrames
    /\ df = loaded
    /\ df_cols_norm = Nothing /\ ov = Nothing /\ dd = Nothing /\ flags = Nothing
    /\ figs = Nothing
    /\ max_hist = DefaultMaxHist /\ max_box = DefaultMaxBox
    /\ log = {} /\ files = {}
    /\ IdleLoader

NextMain ==
    \/ CleanUnnamed \/ CleanUnnamedRaises \/ Normalize \/ Overview \/ Dictionary
    \/ Flags \/ Charts \/ Tables \/ LogError \/ Finish

SpecMain == InitMain /\ [][NextMain]_vars

\* ---- data_dictionary and quality_flags on profiled frames
NamePool == { << "i", "d" >>, << "a", "g", "e" >> }
SampledRowCounts == { 20, 2003 }

ProfiledFrames ==
    { EmptyFrame }
    \cup UNION { Frames(n, names, { Number }, n) :
                 n \in 0..MaxRows, names \in SeqsUpTo(NamePool, MaxCols) \ { <<>> } }
    \cup UNION { Frames(n, << << "a", "g", "e" >> >>, { Number }, 1) : n \in SampledRowCounts }

InitFlags ==
    /\ pc = "data_dictionary"
    /\ df_cols_norm \in ProfiledFrames
    /\ loaded = Nothing /\ df = Nothing /\ ov = Nothing
    /\ dd = Nothing /\ flags = Nothing /\ figs = Nothing
    /\ max_hist = DefaultMaxHist /\ max_box = DefaultMaxBox
    /\ log = {} /\ files = {}
    /\ IdleLoader

NextFlags == Dictionary \/ Flags

SpecFlags == InitFlags /\ [][NextFlags]_vars

\* ---- the charts on frames of one row
Digits == << "1", "2", "3", "4", "5", "6", "7", "8", "9" >>
GridNames(k) == [i \in 1..k |-> << "c", Digits[i] >>]
Caps == { -1, 0 } \cup 1..MaxCap \cup { DefaultMaxHist, DefaultMaxBox }

GridFrames == UNION { Frames(1, GridNames(k), { Number, Object }, 0) : k \in 1..MaxGridCols }

InitGrid ==
    /\ pc = "charts"
    /\ df_cols_norm \in GridFrames
    /\ max_hist \in Caps
    /\ max_box \in Caps
    /\ loaded = Nothing /\ df = Nothing /\ ov = Nothing
    /\ dd = Nothing /\ flags = Nothing /\ figs = Nothing
    /\ log = {} /\ files = {}
    /\ IdleLoader

NextGrid == Charts \/ Tables

SpecGrid == InitGrid /\ [][NextGrid]_vars

\* ------------------------------------------------------------------ claims
PostNormalize == { "overview", "data_dictionary", "no_columns", "quality_flags",
                   "charts", "tables", "finish", "done" }
PostClean == { "normalize" } \cup PostNormalize

Listed(name, list) == name \in Range(list)

\* list holds labels of names, in the order of names, none twice
InColumnOrder(list, names) ==
    /\ IsInjective(list)
    /\ list = SelectSeq(names, LAMBDA x : x \in Range(list))

\* C1 (as stated): once quality_flags has run, a column is in suspected_id_like
\* exactly when row_count > 0 and its unique-value count is at least
\* max(2, ceil(0.9 * row_count)).
C1_SuspectedIdCeil ==
    pc = "charts" =>
        \A i \in 1..Len(df_cols_norm.columns) :
            LET s == df_cols_norm.columns[i]
                n == df_cols_norm.n
            IN  Listed(s.column, flags.suspected_id_like)
                <=> (n > 0 /\ nunique(s) >= Max(2, CeilDiv(9 * n, 10)))

\* C2 (as stated): the column names of the normalized table handed to the
\* profiler are pairwise distinct whenever the loaded labels were.
C2_NormalizedNamesDistinct ==
    pc \in PostNormalize => IsInjective(Labels(df_cols_norm))

\* C3 (as stated): a column is in high_missing_cols exactly when
\* missing_count / row_count * 100 is strictly greater than 30.
C3_HighMissingUnrounded ==
    pc = "charts" =>
        \A i \in 1..Len(df_cols_norm.columns) :
            LET s == df_cols_norm.columns[i]
                n == df_cols_norm.n
            IN  Listed(s.column, flags.high_missing_cols)
                <=> (n > 0 /\ isna_sum(s) * 100 > 30 * n)

\* C3 (amended): a column is in high_missing_cols exactly when its missing
\* percentage rounded to two decimals exceeds 30, that is when
\* missing_count / row_count * 100 > 30.005: 35% is listed, exactly 30% is not,
\* and neither is 30.004%.
C3_HighMissingRounded ==
    pc = "charts" =>
        \A i \in 1..Len(df_cols_norm.columns) :
            LET s == df_cols_norm.columns[i]
                n == df_cols_norm.n
            IN  Listed(s.column, flags.high_missing_cols)
                <=> (n > 0 /\ isna_sum(s) * 20000 > 6001 * n)

\* C3 witness: 7 missing of 20 rows (35%) is listed
C3_Witness ==
    /\ pc = "charts"
    /\ df_cols_norm.n = 20
    /\ isna_sum(df_cols_norm.columns[1]) = 7
    /\ flags.high_missing_cols = << df_cols_norm.columns[1].column >>

\* C4: with sep "auto" the separator used is the candidate with the highest
\* count in the first line, the first listed one on a tie (also for an empty
\* line); any other sep is used unchanged.
C4_DetectSepFirstMax ==
    (pc = "returned" /\ ext \in TextExts) =>
        IF sep = "auto"
        THEN \E i \in 1..Len(candidates) :
                /\ used_sep = candidates[i]
                /\ \A j \in 1..Len(candidates) :
                    /\ Count(head, candidates[j]) <= Count(head, candidates[i])
                    /\ j < i => Count(head, candidates[j]) < Count(head, candidates[i])
        ELSE used_sep = sep

\* C4 witness: a tie between ";" and "|" above "," goes to ";"
C4_Witness ==
    /\ pc = "returned" /\ sep = "auto"
    /\ Count(head, ";") = 2 /\ Count(head, "|") = 2 /\ Count(head, ",") = 0
    /\ used_sep = ";"

\* C5: with a normalized table of zero columns only the overview step runs:
\* nothing but the sample head is written, neither dictionary, flags nor charts
\* are computed, and the run ends after logging an error.
C5_NoColumnsWritesNothing ==
    (pc \in PostNormalize /\ Len(df_cols_norm.columns) = 0) =>
        /\ pc \in { "overview", "no_columns", "finish", "done" }
        /\ files \subseteq { SampleHead }
        /\ dd = Nothing /\ figs = Nothing
        /\ pc \in { "finish", "done" } => "ERROR" \in log

\* C5 witness: a finished run on a table without columns
C5_Witness ==
    /\ pc = "done"
    /\ Len(df_cols_norm.columns) = 0
    /\ "ERROR" \in log
    /\ files = { SampleHead }

C7_HeaderAttemptsInOrder ==
    (pc \in { "returned", "raised" } /\ ext \in ExcelExts) =>
        /\ pc = "returned"
        /\ LET hits == { i \in 1..Len(Headers) : book[Headers[i]] > 0 }
           IN  IF hits # {}
               THEN LET first == CHOOSE i \in hits : \A j \in hits : i <= j
                    IN  /\ attempts = SubSeq(Headers, 1, first)
                        /\ ret = [type |-> "DataFrame", ncols |-> book[Headers[first]],
                                  header |-> Headers[first]]
               ELSE /\ attempts = Headers \o << None >>
                    /\ ret = [type |-> "DataFrame", ncols |-> book[None], header |-> None]

GridAsClaimed(fig, cap) ==
    LET nums == select_number(df_cols_norm)
        k == Min(Len(nums), cap)
    IN  k >= 1 =>
            /\ fig.saved
            /\ fig.c * fig.c >= k /\ (fig.c - 1) * (fig.c - 1) < k
            /\ fig.r * fig.c >= k /\ (fig.r - 1) * fig.c < k
            /\ fig.drawn = SubSeq(nums, 1, k)
            /\ fig.hidden = fig.r * fig.c - k

\* C8: for k = min(numeric columns, cap) >= 1 the histogram and boxplot grids
\* have cols = ceil(sqrt(k)) and rows = ceil(k / cols), rows * cols >= k, the
\* first k numeric columns drawn in table order and rows * cols - k cells hidden.
C8_GridCoversSelection ==
    pc = "tables" =>
        /\ GridAsClaimed(figs.histograms, max_hist)
        /\ GridAsClaimed(figs.boxplots, max_box)

\* C8 witness: 7 numeric columns give a 3 x 3 grid with 2 hidden cells
C8_Witness ==
    /\ pc = "tables"
    /\ Len(figs.histograms.drawn) = 7
    /\ figs.histograms.r = 3 /\ figs.histograms.c = 3
    /\ figs.histograms.hidden = 2

\* C9: every missing_pct of the Data Dictionary lies in [0, 100] (in
\* hundredths: [0, 10000]) and is 0 when the table has no rows.
C9_MissingPctInRange ==
    pc \in { "quality_flags", "charts" } =>
        \A i \in 1..Len(dd) :
            /\ 0 <= dd[i].missing_pct /\ dd[i].missing_pct <= 100 * 100
            /\ df_cols_norm.n = 0 => dd[i].missing_pct = 0

\* C9 witness: the dictionary of a table with columns and no rows
C9_Witness ==
    /\ pc = "quality_flags"
    /\ df_cols_norm.n = 0
    /\ Len(dd) = 2
    /\ dd[1].missing_pct = 0 /\ dd[2].missing_pct = 0

\* C10: constant_cols and suspected_id_like are disjoint, and each of the three
\* lists holds column names of the table, in column order, none twice.
C10_FlagListsDisjointOrdered ==
    pc = "charts" =>
        LET names == Labels(df_cols_norm)
        IN  /\ Range(flags.constant_cols) \cap Range(flags.suspected_id_like) = {}
            /\ InColumnOrder(flags.high_missing_cols, names)
            /\ InColumnOrder(flags.constant_cols, names)
            /\ InColumnOrder(flags.suspected_id_like, names)

\* C10 witness: one constant column and one identifier-like column
C10_Witness ==
    /\ pc = "charts"
    /\ Len(flags.constant_cols) = 1
    /\ Len(flags.suspected_id_like) = 1

====
